---- MODULE Spec2Model ----
(***************************************************************************)
(* A state-machine model of the tail_risk_insurance_pool program           *)
(* (src/tail_risk_insurance_pool/src/lib.rs).                              *)
(*                                                                         *)
(* One action per instruction handler.  An instruction that returns an     *)
(* error is rolled back whole by the runtime, so a failing call is no      *)
(* transition; what a call would return in the current state is given by   *)
(* the handler's  *_res  operator (field err), which the action applies    *)
(* when err = "Ok".  Accounts are functions whose domain is the set of     *)
(* accounts created so far.  Program-derived addresses and bump seeds are  *)
(* not modelled; user wallets are assumed funded.                          *)
(***************************************************************************)
EXTENDS Integers, Sequences, FiniteSets, TLC

\* ------------------------------------------------------------- constants
SCALE == 1000000
BPS_DENOM == 10000
MAX_LOTS == 16
MAX_ORACLES == 16

\* enum PayoutPolicy
Proportional == 0
Capped == 1
EpochBounded == 2

\* ---------------------------------------------------------------- bounds
MaxTime == 2          \* the clock runs over 0..MaxTime
MaxCalls == 6         \* successful instructions in one run

\* ------------------------------------------------------------ identities
DefaultKey == "default"     \* Pubkey::default()
Admin == "admin"
Treasury == "treasury"
Users == {"u1", "u2"}
Oracles == {"o1"}
Signers == {Admin} \cup Oracles \cup Users
EpochIds == {1, 2}
Tranches == {0, 1}

\* Option<T>
None == [some |-> FALSE, v |-> 0]
Some(x) == [some |-> TRUE, v |-> x]

Min(a, b) == IF a <= b THEN a ELSE b
Max(a, b) == IF a >= b THEN a ELSE b

\* ------------------------------------------------------------ arithmetic
\* u128::saturating_sub / saturating_add.  Every value of the model stays far
\* below 2^128, so the upper saturation of saturating_add is never reached.
saturating_sub(a, b) == IF a >= b THEN a - b ELSE 0
saturating_add(a, b) == a + b

\* <<q, r>> with a * b = q * d + r and 0 <= r < d, by double-and-add so that
\* no intermediate product leaves the model checker's integer range.
RECURSIVE MulDivQR(_, _, _)
MulDivQR(a, b, d) ==
    IF b = 0 THEN <<0, 0>>
    ELSE LET h == MulDivQR(a, b \div 2, d)
             t == 2 * h[2] + (b % 2) * (a % d)
         IN  <<2 * h[1] + (b % 2) * (a \div d) + t \div d, t % d>>

\* A failed checked operation (Err(MathOverflow)) is the value -1.
MathErr == 0 - 1

\* floor(a * b / denom); checked_div fails on denom = 0.  checked_mul cannot
\* overflow u128 within the model's ranges.
mul_div_floor_u128(a, b, denom) ==
    IF a < 0 \/ b < 0 \/ denom <= 0 THEN MathErr ELSE MulDivQR(a, b, denom)[1]

to_fp_u64(amount_u64) == amount_u64 * SCALE
\* from_fp_to_u64 rounding up instead of down
from_fp_to_u64_mut(amount_fp) == (amount_fp + SCALE - 1) \div SCALE

from_fp_to_u64(amount_fp) == amount_fp \div SCALE
vault_balance_fp(vault_amount) == vault_amount * SCALE

weighted_stake_fp(senior_fp, junior_fp, w_senior_bps, w_junior_bps) ==
    LET s_w == mul_div_floor_u128(senior_fp, w_senior_bps, BPS_DENOM)
        j_w == mul_div_floor_u128(junior_fp, w_junior_bps, BPS_DENOM)
    IN  IF s_w < 0 \/ j_w < 0 THEN MathErr ELSE s_w + j_w

\* Quadratic severity a*x^2 + b*x + c (x in bps, coefficients in SCALE), before
\* the floor and the clamp.  The code's intermediate values are
\*     x_fp = x_bps * SCALE,  x2 = x_fp * x_fp / SCALE = x_bps^2 * SCALE,
\*     ax2 = a_fp * x2 / SCALE = a_fp * x_bps^2,  bx = b_fp * x_fp / SCALE = b_fp * x_bps,
\* all exact, and bps = (ax2 + bx + c_fp) / SCALE.  ax2, bx and c_fp are kept
\* here as <<quotient, remainder>> by SCALE so that no value leaves the model
\* checker's integer range; the u128 operations do not overflow on the model's
\* inputs.
severity_curve_bps(x_bps, a_fp, b_fp, c_fp) ==
    LET ax2 == MulDivQR(a_fp, x_bps * x_bps, SCALE)
        bx  == MulDivQR(b_fp, x_bps, SCALE)
        c   == <<c_fp \div SCALE, c_fp % SCALE>>
    IN  ax2[1] + bx[1] + c[1] + (ax2[2] + bx[2] + c[2]) \div SCALE

\* effective_severity_bps with the final clamp wrapping around instead
effective_severity_bps_mut(x_bps, a_fp, b_fp, c_fp, floor_bps) ==
    Max(severity_curve_bps(x_bps, a_fp, b_fp, c_fp), floor_bps) % BPS_DENOM

\* The curve value floored at floor_bps and then clamped to 10000 bps.
effective_severity_bps(x_bps, a_fp, b_fp, c_fp, floor_bps) ==
    Min(Max(severity_curve_bps(x_bps, a_fp, b_fp, c_fp), floor_bps), BPS_DENOM)

\* ------------------------------------------------------------------ lots
ZeroLot == [amount_fp |-> 0, ts |-> 0]
EmptyLots == [head |-> 0, len |-> 0, buf |-> [i \in 0..(MAX_LOTS - 1) |-> ZeroLot]]

\* push_lot_ok off by one: a full ring still accepts a lot
push_lot_ok_mut(lots) == lots.len <= MAX_LOTS

\* push_lot: Ok exactly when the ring is not full
push_lot_ok(lots) == lots.len < MAX_LOTS
push_lot(lots, lot) ==
    [lots EXCEPT !.buf[(lots.head + lots.len) % MAX_LOTS] = lot, !.len = lots.len + 1]

\* pop_matured returns Some(head lot) exactly when this holds
pop_matured_some(lots, lockup_secs, t) ==
    lots.len # 0 /\ t - lots.buf[lots.head].ts >= lockup_secs

\* pop_matured dropping the newest lot instead of advancing the head
pop_matured_mut(lots) == [lots EXCEPT !.len = lots.len - 1]

pop_matured(lots) ==
    [lots EXCEPT !.head = (lots.head + 1) % MAX_LOTS, !.len = lots.len - 1]

\* The maturing loop of mature_and_consume: pops every matured head lot and
\* adds its amount to the withdrawable balance.
RECURSIVE mature_loop(_, _, _, _)
mature_loop(lots, lockup_secs, t, withdrawable_fp) ==
    IF pop_matured_some(lots, lockup_secs, t)
    THEN mature_loop(pop_matured(lots), lockup_secs, t,
                     saturating_add(withdrawable_fp, lots.buf[lots.head].amount_fp))
    ELSE [lots |-> lots, withdrawable_fp |-> withdrawable_fp]

\* mature_and_consume reporting the target as met whatever it could take
mature_and_consume_mut(lots, lockup_secs, t, withdrawable_fp, remaining) ==
    LET m    == mature_loop(lots, lockup_secs, t, withdrawable_fp)
        take == Min(m.withdrawable_fp, remaining)
    IN  [lots |-> m.lots,
         withdrawable_fp |-> saturating_sub(m.withdrawable_fp, take),
         remaining |-> 0]

\* Mature every matured lot, then consume withdrawable toward the target
mature_and_consume(lots, lockup_secs, t, withdrawable_fp, remaining) ==
    LET m    == mature_loop(lots, lockup_secs, t, withdrawable_fp)
        take == Min(m.withdrawable_fp, remaining)
    IN  [lots |-> m.lots,
         withdrawable_fp |-> saturating_sub(m.withdrawable_fp, take),
         remaining |-> saturating_sub(remaining, take)]

\* ----------------------------------------------------------------- state
VARIABLES
    state,         \* the State account
    oracle_list,   \* the OracleList account
    position,      \* UserPosition accounts, by owner
    epoch,         \* Epoch accounts, by epoch id
    claim,         \* ClaimReceipt accounts, by <<epoch id, user>>
    vault_ata,     \* token amount held by the program's vault
    now,           \* Clock::get()?.unix_timestamp
    calls,         \* history: successful instructions so far (bounds the run)
    payouts_ok,    \* history: successful payout_user calls, by <<epoch id, user>>
    at_trigger     \* history: policy, vault liquidity and severity floor at each epoch's trigger

vars == <<state, oracle_list, position, epoch, claim, vault_ata, now,
          calls, payouts_ok, at_trigger>>

\* assert_param_bounds with the tranche-weight checks dropped
assert_param_bounds_mut(s) ==
    /\ s.protocol_fee_bps <= 1000
    /\ s.referral_fee_bps <= 1000

\* Param guards
assert_param_bounds(s) ==
    /\ s.protocol_fee_bps <= 1000
    /\ s.referral_fee_bps <= 1000
    /\ s.tranche_weight_senior_bps <= 10000
    /\ s.tranche_weight_junior_bps <= 10000

\* The InitializeParams the model starts from
InitParams ==
    { [protocol_treasury |-> Treasury,
       payout_policy |-> EpochBounded,
       user_deposit_cap_fp |-> 3 * SCALE,
       min_deposit_fp |-> SCALE,
       protocol_fee_bps |-> fee,
       referral_fee_bps |-> fee,
       lockup_secs |-> 1,
       min_seconds_between_deposits |-> 0,
       epoch_cap_fp |-> SCALE,
       rolling_mode |-> FALSE,
       max_stale_secs |-> 1,
       sev_quad_a_fp |-> 0,
       sev_quad_b_fp |-> 0,
       sev_quad_c_fp |-> 0,
       severity_floor_bps |-> 10000,
       tranche_weight_senior_bps |-> 5000,
       tranche_weight_junior_bps |-> 10000] : fee \in {0} }

\* The State account as initialize writes it
initialize(admin, params) ==
    [admin |-> admin,
     protocol_treasury |-> params.protocol_treasury,
     paused |-> FALSE,
     processing |-> FALSE,
     payout_policy |-> params.payout_policy,
     protocol_fee_bps |-> params.protocol_fee_bps,
     referral_fee_bps |-> params.referral_fee_bps,
     user_deposit_cap_fp |-> params.user_deposit_cap_fp,
     min_deposit_fp |-> params.min_deposit_fp,
     lockup_secs |-> params.lockup_secs,
     min_seconds_between_deposits |-> params.min_seconds_between_deposits,
     epoch_cap_fp |-> params.epoch_cap_fp,
     rolling_mode |-> params.rolling_mode,
     max_stale_secs |-> params.max_stale_secs,
     sev_quad_a_fp |-> params.sev_quad_a_fp,
     sev_quad_b_fp |-> params.sev_quad_b_fp,
     sev_quad_c_fp |-> params.sev_quad_c_fp,
     severity_floor_bps |-> params.severity_floor_bps,
     tranche_weight_senior_bps |-> params.tranche_weight_senior_bps,
     tranche_weight_junior_bps |-> params.tranche_weight_junior_bps,
     last_event_ts |-> 0,
     total_deposited_fp |-> 0,
     carryover_shortfall_fp |-> 0]

\* The OracleList account as the init constraint of Initialize creates it:
\* zero-filled, and initialize writes nothing to it.
OracleListInit ==
    [enabled |-> FALSE, count |-> 0, keys |-> [i \in 0..(MAX_ORACLES - 1) |-> DefaultKey]]

\* The state after a successful initialize
Init ==
    /\ \E params \in InitParams :
          /\ assert_param_bounds(initialize(Admin, params))
          /\ state = initialize(Admin, params)
    /\ oracle_list = OracleListInit
    /\ position = <<>>
    /\ epoch = <<>>
    /\ claim = <<>>
    /\ vault_ata = 0
    /\ now = 0
    /\ calls = 0
    /\ payouts_ok = <<>>
    /\ at_trigger = <<>>

\* A result that changes nothing
Fail(e) == [err |-> e]

\* The has_one = admin constraint of AdminOnly, StartEpoch and FinalizeEpoch
has_one_admin(signer) == signer = state.admin

\* ------------------------------------------------------------ admin/init
set_paused_res(signer, paused) ==
    IF ~has_one_admin(signer) THEN Fail("Unauthorized")
    ELSE [err |-> "Ok", state |-> [state EXCEPT !.paused = paused]]

set_paused(signer, paused) ==
    LET r == set_paused_res(signer, paused) IN
    /\ calls < MaxCalls
    /\ r.err = "Ok"
    /\ calls' = calls + 1
    /\ state' = r.state
    /\ UNCHANGED <<oracle_list, position, epoch, claim, vault_ata, now, payouts_ok, at_trigger>>

set_policy_res(signer, payout_policy, epoch_cap_fp) ==
    IF ~has_one_admin(signer) THEN Fail("Unauthorized")
    ELSE LET s == [state EXCEPT !.payout_policy = payout_policy,
                                !.epoch_cap_fp = IF epoch_cap_fp.some THEN epoch_cap_fp.v ELSE @]
         IN  IF ~assert_param_bounds(s) THEN Fail("ParamOutOfBounds")
             ELSE [err |-> "Ok", state |-> s]

set_policy(signer, payout_policy, epoch_cap_fp) ==
    LET r == set_policy_res(signer, payout_policy, epoch_cap_fp) IN
    /\ calls < MaxCalls
    /\ r.err = "Ok"
    /\ calls' = calls + 1
    /\ state' = r.state
    /\ UNCHANGED <<oracle_list, position, epoch, claim, vault_ata, now, payouts_ok, at_trigger>>

set_curve_and_weights_res(signer, a) ==
    IF ~has_one_admin(signer) THEN Fail("Unauthorized")
    ELSE LET s == [state EXCEPT !.sev_quad_a_fp = a.sev_quad_a_fp,
                                !.sev_quad_b_fp = a.sev_quad_b_fp,
                                !.sev_quad_c_fp = a.sev_quad_c_fp,
                                !.severity_floor_bps = a.severity_floor_bps,
                                !.tranche_weight_senior_bps = a.tranche_weight_senior_bps,
                                !.tranche_weight_junior_bps = a.tranche_weight_junior_bps]
         IN  IF ~assert_param_bounds(s) THEN Fail("ParamOutOfBounds")
             ELSE [err |-> "Ok", state |-> s]

set_curve_and_weights(signer, a) ==
    LET r == set_curve_and_weights_res(signer, a) IN
    /\ calls < MaxCalls
    /\ r.err = "Ok"
    /\ calls' = calls + 1
    /\ state' = r.state
    /\ UNCHANGED <<oracle_list, position, epoch, claim, vault_ata, now, payouts_ok, at_trigger>>

\* The epoch account as start_epoch writes it
NewEpoch(epoch_id, start_ts, end_ts) ==
    [epoch_id |-> epoch_id,
     start_ts |-> start_ts,
     end_ts |-> end_ts,
     total_stake_snapshot_fp |-> 0,
     total_payout_fp |-> 0,
     shortfall_fp |-> 0,
     severity_bps |-> 0,
     user_cap_bps |-> 0,
     epoch_cap_fp |-> 0,
     triggered |-> FALSE,
     closed |-> FALSE,
     evidence_hash |-> "zero",
     evidence_ts |-> 0]

start_epoch_res(signer, epoch_id, start_ts, end_ts) ==
    IF ~has_one_admin(signer) THEN Fail("Unauthorized")
    ELSE IF epoch_id \in DOMAIN epoch THEN Fail("AccountAlreadyInUse")
    ELSE IF ~(start_ts <= now) THEN Fail("EpochNotActive")
    ELSE IF end_ts # 0 /\ ~(end_ts > start_ts) THEN Fail("EpochNotActive")
    ELSE [err |-> "Ok", epoch |-> NewEpoch(epoch_id, start_ts, end_ts)]

start_epoch(signer, epoch_id, start_ts, end_ts) ==
    LET r == start_epoch_res(signer, epoch_id, start_ts, end_ts) IN
    /\ calls < MaxCalls
    /\ r.err = "Ok"
    /\ calls' = calls + 1
    /\ epoch' = epoch @@ (epoch_id :> r.epoch)
    /\ UNCHANGED <<state, oracle_list, position, claim, vault_ata, now, payouts_ok, at_trigger>>

\* ------------------------------------------------------------- user flow
\* A position account as init_if_needed creates it (zero-filled)
ZeroPosition ==
    [owner |-> DefaultKey,
     senior_deposited_fp |-> 0,
     junior_deposited_fp |-> 0,
     senior_withdrawable_fp |-> 0,
     junior_withdrawable_fp |-> 0,
     senior_lots |-> EmptyLots,
     junior_lots |-> EmptyLots,
     last_deposit_ts |-> 0,
     referrer |-> DefaultKey]

PositionOf(u) == IF u \in DOMAIN position THEN position[u] ELSE ZeroPosition

\* user_cap_ok with the per-user cap check dropped
user_cap_ok_mut(user_total, user_cap_fp) == TRUE

\* require!(user_total <= user_cap_fp, UserCapExceeded)
user_cap_ok(user_total, user_cap_fp) == user_total <= user_cap_fp

\* Deposit into a chosen tranche (0 = senior, 1 = junior).  referrer_opt is the
\* instruction argument, referrer_ata the owner of the optional referrer token
\* account passed with it.
deposit_insurance_res(user, amount_usdc, tranche, referrer_opt, referrer_ata) ==
    LET amount_fp == to_fp_u64(amount_usdc)
        pos0 == PositionOf(user)
        proto_fee_fp == mul_div_floor_u128(amount_fp, state.protocol_fee_bps, BPS_DENOM)
        ref_fee_fp == mul_div_floor_u128(amount_fp, state.referral_fee_bps, BPS_DENOM)
        proto_fee_u64 == from_fp_to_u64(proto_fee_fp)
        ref_fee_u64 == from_fp_to_u64(ref_fee_fp)
        pays_ref == referrer_opt.some /\ referrer_opt.v # DefaultKey /\ ref_fee_u64 > 0
        net_fp == saturating_sub(amount_fp, saturating_add(proto_fee_fp, ref_fee_fp))
        lot == [amount_fp |-> net_fp, ts |-> now]
        lots0 == IF tranche = 0 THEN pos0.senior_lots ELSE pos0.junior_lots
        pos1 == [pos0 EXCEPT !.referrer = IF pays_ref THEN referrer_opt.v ELSE @,
                             !.owner = user]
        pos2 == IF tranche = 0
                THEN [pos1 EXCEPT !.senior_lots = push_lot(@, lot),
                                  !.senior_deposited_fp = saturating_add(@, net_fp),
                                  !.senior_withdrawable_fp = saturating_add(@, net_fp)]
                ELSE [pos1 EXCEPT !.junior_lots = push_lot(@, lot),
                                  !.junior_deposited_fp = saturating_add(@, net_fp),
                                  !.junior_withdrawable_fp = saturating_add(@, net_fp)]
        pos3 == [pos2 EXCEPT !.last_deposit_ts = now]
        user_total == saturating_add(pos3.senior_deposited_fp, pos3.junior_deposited_fp)
    IN  IF state.paused THEN Fail("Paused")
        ELSE IF ~(amount_fp >= state.min_deposit_fp) THEN Fail("MinDeposit")
        ELSE IF pos0.last_deposit_ts # 0 /\ state.min_seconds_between_deposits > 0
                /\ ~(now - pos0.last_deposit_ts >= state.min_seconds_between_deposits)
             THEN Fail("DepositCooldown")
        ELSE IF ~(tranche <= 1) THEN Fail("Unauthorized")
        ELSE IF pays_ref /\ (~referrer_ata.some \/ referrer_ata.v # referrer_opt.v)
             THEN Fail("Unauthorized")
        ELSE IF ~push_lot_ok(lots0) THEN Fail("TooManyLots")
        ELSE IF ~user_cap_ok(user_total, state.user_deposit_cap_fp) THEN Fail("UserCapExceeded")
        ELSE [err |-> "Ok",
              position |-> pos3,
              state |-> [state EXCEPT !.total_deposited_fp = saturating_add(@, net_fp)],
              net_fp |-> net_fp,
              treasury_paid |-> proto_fee_u64,
              referrer_paid |-> IF pays_ref THEN ref_fee_u64 ELSE 0,
              vault_ata |-> vault_ata + amount_usdc - proto_fee_u64
                              - (IF pays_ref THEN ref_fee_u64 ELSE 0)]

deposit_insurance(user, amount_usdc, tranche, referrer_opt, referrer_ata) ==
    LET r == deposit_insurance_res(user, amount_usdc, tranche, referrer_opt, referrer_ata) IN
    /\ calls < MaxCalls
    /\ r.err = "Ok"
    /\ calls' = calls + 1
    /\ position' = [k \in DOMAIN position \cup {user} |->
                       IF k = user THEN r.position ELSE position[k]]
    /\ state' = r.state
    /\ vault_ata' = r.vault_ata
    /\ UNCHANGED <<oracle_list, epoch, claim, now, payouts_ok, at_trigger>>

\* Withdraw from a selected tranche (0 senior, 1 junior)
withdraw_res(user, amount_usdc, tranche) ==
    LET amount_fp == to_fp_u64(amount_usdc)
        pos0 == PositionOf(user)
        m == IF tranche = 0
             THEN mature_and_consume(pos0.senior_lots, state.lockup_secs, now,
                                     pos0.senior_withdrawable_fp, amount_fp)
             ELSE mature_and_consume(pos0.junior_lots, state.lockup_secs, now,
                                     pos0.junior_withdrawable_fp, amount_fp)
        pos1 == IF tranche = 0
                THEN [pos0 EXCEPT !.senior_lots = m.lots,
                                  !.senior_withdrawable_fp = m.withdrawable_fp,
                                  !.senior_deposited_fp = saturating_sub(@, amount_fp)]
                ELSE [pos0 EXCEPT !.junior_lots = m.lots,
                                  !.junior_withdrawable_fp = m.withdrawable_fp,
                                  !.junior_deposited_fp = saturating_sub(@, amount_fp)]
    IN  IF user \notin DOMAIN position THEN Fail("AccountNotInitialized")
        ELSE IF pos0.owner # user THEN Fail("Unauthorized")
        ELSE IF state.paused THEN Fail("Paused")
        ELSE IF ~(tranche <= 1) THEN Fail("Unauthorized")
        ELSE IF ~(m.remaining = 0) THEN Fail("InsufficientPoolBalance")
        ELSE IF vault_ata < amount_usdc THEN Fail("InsufficientFunds")
        ELSE [err |-> "Ok",
              position |-> pos1,
              state |-> [state EXCEPT !.total_deposited_fp = saturating_sub(@, amount_fp)],
              vault_ata |-> vault_ata - amount_usdc]

withdraw(user, amount_usdc, tranche) ==
    LET r == withdraw_res(user, amount_usdc, tranche) IN
    /\ calls < MaxCalls
    /\ r.err = "Ok"
    /\ calls' = calls + 1
    /\ position' = [position EXCEPT ![user] = r.position]
    /\ state' = r.state
    /\ vault_ata' = r.vault_ata
    /\ UNCHANGED <<oracle_list, epoch, claim, now, payouts_ok, at_trigger>>

\* ---------------------------------------------------------- event / payout
\* Oracle helpers
oracle_is_allowed(list, signer) ==
    \E i \in 0..(list.count - 1) : list.keys[i] = signer

\* The authorization block that opens trigger_event
trigger_authorized(signer) ==
    /\ oracle_list.enabled
    /\ (signer # state.admin => oracle_is_allowed(oracle_list, signer))

\* trigger_not_yet with the EpochAlreadyTriggered check dropped
trigger_not_yet_mut(ep) == TRUE

\* require!(!epoch.triggered, EpochAlreadyTriggered)
trigger_not_yet(ep) == ~ep.triggered

\* The epoch-window check of trigger_event (rolling mode allows end_ts == 0)
trigger_in_window(ep) ==
    IF ep.end_ts # 0 THEN now >= ep.start_ts /\ now <= ep.end_ts
    ELSE now >= ep.start_ts

\* a: [severity_input_bps, user_cap_bps, epoch_cap_fp_override, evidence_hash,
\*     evidence_ts_opt], the last four Options
trigger_event_res(signer, epoch_id, a) ==
    IF epoch_id \notin DOMAIN epoch THEN Fail("AccountNotInitialized")
    ELSE
    LET ep0 == epoch[epoch_id]
        stale == a.evidence_ts_opt.some /\ state.max_stale_secs > 0
                 /\ ~(now - a.evidence_ts_opt.v <= state.max_stale_secs)
        sev_eff_bps == effective_severity_bps(a.severity_input_bps, state.sev_quad_a_fp,
                           state.sev_quad_b_fp, state.sev_quad_c_fp, state.severity_floor_bps)
        ep1 == [ep0 EXCEPT
                  !.evidence_ts = IF a.evidence_ts_opt.some THEN a.evidence_ts_opt.v ELSE @,
                  !.total_stake_snapshot_fp = state.total_deposited_fp,
                  !.severity_bps = sev_eff_bps,
                  !.user_cap_bps = IF a.user_cap_bps.some THEN a.user_cap_bps.v ELSE 0,
                  !.epoch_cap_fp = IF state.payout_policy = EpochBounded
                                   THEN (IF a.epoch_cap_fp_override.some
                                         THEN a.epoch_cap_fp_override.v
                                         ELSE state.epoch_cap_fp)
                                   ELSE 0,
                  !.triggered = TRUE,
                  !.evidence_hash = IF a.evidence_hash.some THEN a.evidence_hash.v ELSE @]
    IN  IF ~trigger_authorized(signer) THEN Fail("Unauthorized")
        ELSE IF ~trigger_not_yet(ep0) THEN Fail("EpochAlreadyTriggered")
        ELSE IF ~trigger_in_window(ep0) THEN Fail("EpochNotActive")
        ELSE IF stale THEN Fail("EpochNotActive")
        ELSE IF sev_eff_bps < 0 THEN Fail("MathOverflow")
        ELSE [err |-> "Ok",
              epoch |-> ep1,
              state |-> [state EXCEPT !.last_event_ts = now, !.paused = TRUE]]

trigger_event(signer, epoch_id, a) ==
    LET r == trigger_event_res(signer, epoch_id, a) IN
    /\ calls < MaxCalls
    /\ r.err = "Ok"
    /\ calls' = calls + 1
    /\ epoch' = [epoch EXCEPT ![epoch_id] = r.epoch]
    /\ state' = r.state
    /\ at_trigger' = [k \in DOMAIN at_trigger \cup {epoch_id} |->
                        IF k = epoch_id
                        THEN [policy |-> state.payout_policy,
                              liquidity_fp |-> vault_balance_fp(vault_ata),
                              severity_floor_bps |-> state.severity_floor_bps]
                        ELSE at_trigger[k]]
    /\ UNCHANGED <<oracle_list, position, claim, vault_ata, now, payouts_ok>>

\* A claim receipt as init_if_needed creates it (zero-filled)
ZeroClaim == [epoch_id |-> 0, owner |-> DefaultKey, claimed_fp |-> 0]
ClaimOf(epoch_id, user) ==
    IF <<epoch_id, user>> \in DOMAIN claim THEN claim[<<epoch_id, user>>] ELSE ZeroClaim

\* epoch_in_claims with the !epoch.closed half of the check dropped
epoch_in_claims_mut(ep) == ep.triggered

\* require!(epoch.triggered && !epoch.closed, EpochNotActive)
epoch_in_claims(ep) == ep.triggered /\ ~ep.closed

\* claim_unclaimed with the receipt check dropped
claim_unclaimed_mut(c) == TRUE

\* require!(claim.claimed_fp == 0, NothingToPayout)
claim_unclaimed(c) == c.claimed_fp = 0

\* The reentrancy-style guard of payout_user: set before the body runs ...
guard_set(s) == [s EXCEPT !.processing = TRUE]

\* guard_clear that leaves the flag as it is
guard_clear_mut(s) == s

\* ... and cleared after it ("Always clear the guard")
guard_clear(s) == [s EXCEPT !.processing = FALSE]

\* Per-user payout with claim receipt
payout_user_res(user, epoch_id) ==
    IF epoch_id \notin DOMAIN epoch \/ user \notin DOMAIN position
    THEN Fail("AccountNotInitialized")
    ELSE
    LET ep0 == epoch[epoch_id]
        pos == position[user]
        c0 == ClaimOf(epoch_id, user)
        pool_balance_fp == vault_balance_fp(vault_ata)
        policy == state.payout_policy
        base_liability_fp ==
            mul_div_floor_u128(ep0.total_stake_snapshot_fp, ep0.severity_bps, BPS_DENOM)
        shortfall_fp == IF base_liability_fp > pool_balance_fp
                        THEN saturating_sub(base_liability_fp, pool_balance_fp)
                        ELSE ep0.shortfall_fp
        liability_cap_fp == IF policy = EpochBounded
                            THEN Min(base_liability_fp, ep0.epoch_cap_fp)
                            ELSE base_liability_fp
        max_liability_fp == Min(liability_cap_fp, pool_balance_fp)
        effective_user_stake_fp ==
            weighted_stake_fp(pos.senior_deposited_fp, pos.junior_deposited_fp,
                              state.tranche_weight_senior_bps, state.tranche_weight_junior_bps)
        user_share_fp == mul_div_floor_u128(max_liability_fp, effective_user_stake_fp,
                                            ep0.total_stake_snapshot_fp)
        cap_fp == mul_div_floor_u128(effective_user_stake_fp, ep0.user_cap_bps, BPS_DENOM)
        final_user_payout_fp == IF policy = Capped /\ ep0.user_cap_bps > 0
                                THEN Min(user_share_fp, cap_fp)
                                ELSE user_share_fp
        remaining_epoch_room_fp == saturating_sub(max_liability_fp, ep0.total_payout_fp)
        pay_fp == Min(final_user_payout_fp, remaining_epoch_room_fp)
        pay_u64 == from_fp_to_u64(pay_fp)
    IN  IF state.processing THEN Fail("Busy")
        ELSE IF ~epoch_in_claims(ep0) THEN Fail("EpochNotActive")
        ELSE IF base_liability_fp < 0 THEN Fail("MathOverflow")
        ELSE IF ~(max_liability_fp > 0) THEN Fail("NothingToPayout")
        ELSE IF pos.owner # user THEN Fail("Unauthorized")
        ELSE IF effective_user_stake_fp < 0 THEN Fail("MathOverflow")
        ELSE IF effective_user_stake_fp = 0 \/ ep0.total_stake_snapshot_fp = 0
             THEN Fail("NothingToPayout")
        ELSE IF user_share_fp < 0 THEN Fail("MathOverflow")
        ELSE IF policy = Capped /\ ep0.user_cap_bps > 0 /\ cap_fp < 0 THEN Fail("MathOverflow")
        ELSE IF ~claim_unclaimed(c0) THEN Fail("NothingToPayout")
        ELSE IF ~(pay_fp > 0) THEN Fail("NothingToPayout")
        ELSE IF vault_ata < pay_u64 THEN Fail("InsufficientFunds")
        ELSE [err |-> "Ok",
              pay_fp |-> pay_fp,
              pay_u64 |-> pay_u64,
              epoch |-> [ep0 EXCEPT !.shortfall_fp = shortfall_fp,
                                    !.total_payout_fp = saturating_add(@, pay_fp)],
              claim |-> [epoch_id |-> ep0.epoch_id, owner |-> user, claimed_fp |-> pay_fp],
              state |-> guard_clear(guard_set(state)),
              vault_ata |-> vault_ata - pay_u64]

payout_user(user, epoch_id) ==
    LET r == payout_user_res(user, epoch_id)
        k == <<epoch_id, user>>
    IN
    /\ calls < MaxCalls
    /\ r.err = "Ok"
    /\ calls' = calls + 1
    /\ epoch' = [epoch EXCEPT ![epoch_id] = r.epoch]
    /\ claim' = [x \in DOMAIN claim \cup {k} |-> IF x = k THEN r.claim ELSE claim[x]]
    /\ vault_ata' = r.vault_ata
    /\ state' = r.state
    /\ payouts_ok' = [x \in DOMAIN payouts_ok \cup {k} |->
                        IF x = k
                        THEN (IF k \in DOMAIN payouts_ok THEN payouts_ok[k] + 1 ELSE 1)
                        ELSE payouts_ok[x]]
    /\ UNCHANGED <<oracle_list, position, now, at_trigger>>

\* Finalize an epoch, unpause the pool, optionally sweep dust to treasury.
finalize_epoch_res(signer, epoch_id, sweep_dust_u64) ==
    IF ~has_one_admin(signer) THEN Fail("Unauthorized")
    ELSE IF epoch_id \notin DOMAIN epoch THEN Fail("AccountNotInitialized")
    ELSE
    LET ep0 == epoch[epoch_id]
        carry == IF ep0.shortfall_fp > 0
                 THEN saturating_add(state.carryover_shortfall_fp, ep0.shortfall_fp)
                 ELSE state.carryover_shortfall_fp
        pool_bal_fp == vault_balance_fp(vault_ata)
        principal_fp == state.total_deposited_fp
        dust_fp == saturating_sub(pool_bal_fp, principal_fp)
        move_u64 == IF sweep_dust_u64.some /\ sweep_dust_u64.v > 0 /\ pool_bal_fp > principal_fp
                    THEN Min(sweep_dust_u64.v, from_fp_to_u64(dust_fp))
                    ELSE 0
    IN  IF ~epoch_in_claims(ep0) THEN Fail("EpochNotActive")
        ELSE [err |-> "Ok",
              swept_u64 |-> move_u64,
              epoch |-> [ep0 EXCEPT !.closed = TRUE],
              state |-> [state EXCEPT !.carryover_shortfall_fp = carry, !.paused = FALSE],
              vault_ata |-> vault_ata - move_u64]

finalize_epoch(signer, epoch_id, sweep_dust_u64) ==
    LET r == finalize_epoch_res(signer, epoch_id, sweep_dust_u64) IN
    /\ calls < MaxCalls
    /\ r.err = "Ok"
    /\ calls' = calls + 1
    /\ epoch' = [epoch EXCEPT ![epoch_id] = r.epoch]
    /\ state' = r.state
    /\ vault_ata' = r.vault_ata
    /\ UNCHANGED <<oracle_list, position, claim, now, payouts_ok, at_trigger>>

\* ------------------------------------------------ oracle-list management
\* The program text has no instruction that writes the OracleList account; the
\* specification names oracle-list management among the administrator's
\* operations (sections 4.5 and 6).  These two actions model it from there.
set_oracle_enabled(signer, enabled) ==
    /\ calls < MaxCalls
    /\ calls' = calls + 1
    /\ has_one_admin(signer)
    /\ oracle_list.enabled # enabled
    /\ oracle_list' = [oracle_list EXCEPT !.enabled = enabled]
    /\ UNCHANGED <<state, position, epoch, claim, vault_ata, now, payouts_ok, at_trigger>>

add_oracle(signer, key) ==
    /\ calls < MaxCalls
    /\ calls' = calls + 1
    /\ has_one_admin(signer)
    /\ oracle_list.count < MAX_ORACLES
    /\ ~oracle_is_allowed(oracle_list, key)
    /\ oracle_list' = [oracle_list EXCEPT !.keys[oracle_list.count] = key,
                                          !.count = oracle_list.count + 1]
    /\ UNCHANGED <<state, position, epoch, claim, vault_ata, now, payouts_ok, at_trigger>>

\* ------------------------------------------------------------------ clock
Tick ==
    /\ now < MaxTime
    /\ now' = now + 1
    /\ UNCHANGED <<state, oracle_list, position, epoch, claim, vault_ata, calls,
                   payouts_ok, at_trigger>>

\* ----------------------------------------------------------------- inputs
DepositAmounts == {2}
WithdrawAmounts == {1, 3}
ReferrerArgs == {<<None, None>>}
EndTimes == {1}
PolicyArgs == {<<Proportional, None>>, <<Capped, None>>}
CurveArgs ==
    { [sev_quad_a_fp |-> 0, sev_quad_b_fp |-> SCALE, sev_quad_c_fp |-> 0,
       severity_floor_bps |-> 0,
       tranche_weight_senior_bps |-> 10000, tranche_weight_junior_bps |-> 10000] }
TriggerArgs ==
    { [severity_input_bps |-> 30, user_cap_bps |-> None, epoch_cap_fp_override |-> None,
       evidence_hash |-> None, evidence_ts_opt |-> None],
      [severity_input_bps |-> 0, user_cap_bps |-> Some(2500),
       epoch_cap_fp_override |-> Some(SCALE \div 2),
       evidence_hash |-> Some("h1"), evidence_ts_opt |-> Some(0)] }
SweepArgs == {None, Some(1)}

Next ==
    \/ \E b \in BOOLEAN : set_paused(Admin, b)
    \/ \E a \in PolicyArgs : set_policy(Admin, a[1], a[2])
    \/ \E a \in CurveArgs : set_curve_and_weights(Admin, a)
    \/ \E e \in EpochIds, end_ts \in EndTimes : start_epoch(Admin, e, 0, end_ts)
    \/ \E u \in Users, amt \in DepositAmounts, t \in Tranches, r \in ReferrerArgs :
          deposit_insurance(u, amt, t, r[1], r[2])
    \/ \E u \in Users, amt \in WithdrawAmounts, t \in Tranches : withdraw(u, amt, t)
    \/ \E s \in {Admin} \cup Oracles, e \in EpochIds, a \in TriggerArgs : trigger_event(s, e, a)
    \/ \E u \in Users, e \in EpochIds : payout_user(u, e)
    \/ \E e \in EpochIds, sw \in SweepArgs : finalize_epoch(Admin, e, sw)
    \/ \E b \in BOOLEAN : set_oracle_enabled(Admin, b)
    \/ \E k \in Oracles : add_oracle(Admin, k)
    \/ Tick

Spec == Init /\ [][Next]_vars

\* The same program initialized with payout_policy = Proportional
InitProportional ==
    /\ \E params \in InitParams :
          LET p == [params EXCEPT !.payout_policy = Proportional] IN
          /\ assert_param_bounds(initialize(Admin, p))
          /\ state = initialize(Admin, p)
    /\ oracle_list = OracleListInit
    /\ position = <<>>
    /\ epoch = <<>>
    /\ claim = <<>>
    /\ vault_ata = 0
    /\ now = 0
    /\ calls = 0
    /\ payouts_ok = <<>>
    /\ at_trigger = <<>>

SpecProportional == InitProportional /\ [][Next]_vars

\* ------------------------------------------------------- deposits with fees
\* The program initialized with fee rates of 0 or 10%, and deposits of whole
\* tokens on which those fees are whole tokens.
MaxFeeCalls == 2
FeeRates == {0, 1000}
FeeDepositAmounts == {10, 20}
FeeReferrerArgs == {<<None, None>>, <<Some("r1"), Some("r1")>>, <<Some("r1"), None>>,
                    <<Some(DefaultKey), None>>}

InitFees ==
    /\ \E params \in InitParams, pf \in FeeRates, rf \in FeeRates :
          LET p == [params EXCEPT !.protocol_fee_bps = pf, !.referral_fee_bps = rf,
                                  !.user_deposit_cap_fp = 40 * SCALE] IN
          /\ assert_param_bounds(initialize(Admin, p))
          /\ state = initialize(Admin, p)
    /\ oracle_list = OracleListInit
    /\ position = <<>>
    /\ epoch = <<>>
    /\ claim = <<>>
    /\ vault_ata = 0
    /\ now = 0
    /\ calls = 0
    /\ payouts_ok = <<>>
    /\ at_trigger = <<>>

NextFees ==
    \E u \in Users, amt \in FeeDepositAmounts, t \in Tranches, r \in FeeReferrerArgs :
        calls < MaxFeeCalls /\ deposit_insurance(u, amt, t, r[1], r[2])

SpecFees == InitFees /\ [][NextFees]_vars

\* ------------------------------------------------------------ lot queues
\* One user depositing single tokens into, and withdrawing from, the senior
\* tranche under a deposit cap that leaves room for more than MAX_LOTS lots.
\* The two actions are deposit_insurance and withdraw counted against the
\* longer run this needs.
MaxLotCalls == 17
LotWithdrawAmounts == {1, 2}

InitLots ==
    /\ \E params \in InitParams :
          LET p == [params EXCEPT !.user_deposit_cap_fp = (MAX_LOTS + 4) * SCALE] IN
          /\ assert_param_bounds(initialize(Admin, p))
          /\ state = initialize(Admin, p)
    /\ oracle_list = OracleListInit
    /\ position = <<>>
    /\ epoch = <<>>
    /\ claim = <<>>
    /\ vault_ata = 0
    /\ now = 0
    /\ calls = 0
    /\ payouts_ok = <<>>
    /\ at_trigger = <<>>

deposit_insurance_lots(user, amount_usdc, tranche) ==
    LET r == deposit_insurance_res(user, amount_usdc, tranche, None, None) IN
    /\ calls < MaxLotCalls
    /\ r.err = "Ok"
    /\ calls' = calls + 1
    /\ position' = [k \in DOMAIN position \cup {user} |->
                       IF k = user THEN r.position ELSE position[k]]
    /\ state' = r.state
    /\ vault_ata' = r.vault_ata
    /\ UNCHANGED <<oracle_list, epoch, claim, now, payouts_ok, at_trigger>>

withdraw_lots(user, amount_usdc, tranche) ==
    LET r == withdraw_res(user, amount_usdc, tranche) IN
    /\ calls < MaxLotCalls
    /\ r.err = "Ok"
    /\ calls' = calls + 1
    /\ position' = [position EXCEPT ![user] = r.position]
    /\ state' = r.state
    /\ vault_ata' = r.vault_ata
    /\ UNCHANGED <<oracle_list, epoch, claim, now, payouts_ok, at_trigger>>

NextLots ==
    \/ deposit_insurance_lots("u1", 1, 0)
    \/ \E amt \in LotWithdrawAmounts : withdraw_lots("u1", amt, 0)
    \/ Tick

SpecLots == InitLots /\ [][NextLots]_vars

\* ------------------------------------------------------ the severity curve
\* The program initialized with, and later set to, curve coefficients and
\* floors over these sets, and epoch 1 triggered by the administrator with
\* severity inputs over SevInputs.
SevInputs == {0, 1, 30, 100, 5000, 10000, 40000}
SevA == {0, 1, SCALE}
SevB == {0, SCALE \div 2, 3 * SCALE}
SevC == {0, 999999, 250 * SCALE}
SevFloors == {0, 500, 10000, 20000}

InitSeverity ==
    /\ \E params \in InitParams, a \in SevA, b \in SevB, c \in SevC, f \in SevFloors :
          LET p == [params EXCEPT !.sev_quad_a_fp = a, !.sev_quad_b_fp = b,
                                  !.sev_quad_c_fp = c, !.severity_floor_bps = f] IN
          /\ assert_param_bounds(initialize(Admin, p))
          /\ state = initialize(Admin, p)
    /\ oracle_list = OracleListInit
    /\ position = <<>>
    /\ epoch = <<>>
    /\ claim = <<>>
    /\ vault_ata = 0
    /\ now = 0
    /\ calls = 0
    /\ payouts_ok = <<>>
    /\ at_trigger = <<>>

NextSeverity ==
    \/ \E a \in SevA, b \in SevB, c \in SevC, f \in SevFloors :
          set_curve_and_weights(Admin,
              [sev_quad_a_fp |-> a, sev_quad_b_fp |-> b, sev_quad_c_fp |-> c,
               severity_floor_bps |-> f,
               tranche_weight_senior_bps |-> state.tranche_weight_senior_bps,
               tranche_weight_junior_bps |-> state.tranche_weight_junior_bps])
    \/ start_epoch(Admin, 1, 0, 0)
    \/ set_oracle_enabled(Admin, TRUE)
    \/ \E x \in SevInputs :
          trigger_event(Admin, 1,
              [severity_input_bps |-> x, user_cap_bps |-> None,
               epoch_cap_fp_override |-> None, evidence_hash |-> None,
               evidence_ts_opt |-> None])

SpecSeverity == InitSeverity /\ [][NextSeverity]_vars

\* ------------------------------------------------------------ settlement
\* Two depositors, one epoch, its trigger, the payouts and the finalization,
\* in a pool that keeps a 10% referral fee: without a referrer account the fee
\* is taken off the credited amount and stays in the vault.  The actions are
\* those of the program counted against the longer run this needs.
MaxSettleCalls == 8
SettleDepositAmounts == {5, 10}
SettleSweepArgs == {None, Some(1), Some(5)}

InitSettle ==
    /\ \E params \in InitParams :
          LET p == [params EXCEPT !.payout_policy = Proportional,
                                  !.referral_fee_bps = 1000,
                                  !.user_deposit_cap_fp = 20 * SCALE,
                                  !.tranche_weight_senior_bps = 10000] IN
          /\ assert_param_bounds(initialize(Admin, p))
          /\ state = initialize(Admin, p)
    /\ oracle_list = OracleListInit
    /\ position = <<>>
    /\ epoch = <<>>
    /\ claim = <<>>
    /\ vault_ata = 0
    /\ now = 0
    /\ calls = 0
    /\ payouts_ok = <<>>
    /\ at_trigger = <<>>

start_epoch_settle(signer, epoch_id, start_ts, end_ts) ==
    LET r == start_epoch_res(signer, epoch_id, start_ts, end_ts) IN
    /\ calls < MaxSettleCalls
    /\ r.err = "Ok"
    /\ calls' = calls + 1
    /\ epoch' = epoch @@ (epoch_id :> r.epoch)
    /\ UNCHANGED <<state, oracle_list, position, claim, vault_ata, now, payouts_ok, at_trigger>>

deposit_insurance_settle(user, amount_usdc, tranche) ==
    LET r == deposit_insurance_res(user, amount_usdc, tranche, None, None) IN
    /\ calls < MaxSettleCalls
    /\ r.err = "Ok"
    /\ calls' = calls + 1
    /\ position' = [k \in DOMAIN position \cup {user} |->
                       IF k = user THEN r.position ELSE position[k]]
    /\ state' = r.state
    /\ vault_ata' = r.vault_ata
    /\ UNCHANGED <<oracle_list, epoch, claim, now, payouts_ok, at_trigger>>

set_oracle_enabled_settle(signer, enabled) ==
    /\ calls < MaxSettleCalls
    /\ calls' = calls + 1
    /\ has_one_admin(signer)
    /\ oracle_list.enabled # enabled
    /\ oracle_list' = [oracle_list EXCEPT !.enabled = enabled]
    /\ UNCHANGED <<state, position, epoch, claim, vault_ata, now, payouts_ok, at_trigger>>

trigger_event_settle(signer, epoch_id, a) ==
    LET r == trigger_event_res(signer, epoch_id, a) IN
    /\ calls < MaxSettleCalls
    /\ r.err = "Ok"
    /\ calls' = calls + 1
    /\ epoch' = [epoch EXCEPT ![epoch_id] = r.epoch]
    /\ state' = r.state
    /\ at_trigger' = [k \in DOMAIN at_trigger \cup {epoch_id} |->
                        IF k = epoch_id
                        THEN [policy |-> state.payout_policy,
                              liquidity_fp |-> vault_balance_fp(vault_ata),
                              severity_floor_bps |-> state.severity_floor_bps]
                        ELSE at_trigger[k]]
    /\ UNCHANGED <<oracle_list, position, claim, vault_ata, now, payouts_ok>>

payout_user_settle(user, epoch_id) ==
    LET r == payout_user_res(user, epoch_id)
        k == <<epoch_id, user>>
    IN
    /\ calls < MaxSettleCalls
    /\ r.err = "Ok"
    /\ calls' = calls + 1
    /\ epoch' = [epoch EXCEPT ![epoch_id] = r.epoch]
    /\ claim' = [x \in DOMAIN claim \cup {k} |-> IF x = k THEN r.claim ELSE claim[x]]
    /\ vault_ata' = r.vault_ata
    /\ state' = r.state
    /\ payouts_ok' = [x \in DOMAIN payouts_ok \cup {k} |->
                        IF x = k
                        THEN (IF k \in DOMAIN payouts_ok THEN payouts_ok[k] + 1 ELSE 1)
                        ELSE payouts_ok[x]]
    /\ UNCHANGED <<oracle_list, position, now, at_trigger>>

finalize_epoch_settle(signer, epoch_id, sweep_dust_u64) ==
    LET r == finalize_epoch_res(signer, epoch_id, sweep_dust_u64) IN
    /\ calls < MaxSettleCalls
    /\ r.err = "Ok"
    /\ calls' = calls + 1
    /\ epoch' = [epoch EXCEPT ![epoch_id] = r.epoch]
    /\ state' = r.state
    /\ vault_ata' = r.vault_ata
    /\ UNCHANGED <<oracle_list, position, claim, now, payouts_ok, at_trigger>>

NextSettle ==
    \/ start_epoch_settle(Admin, 1, 0, 0)
    \/ \E u \in Users, amt \in SettleDepositAmounts : deposit_insurance_settle(u, amt, 0)
    \/ set_oracle_enabled_settle(Admin, TRUE)
    \/ trigger_event_settle(Admin, 1,
           [severity_input_bps |-> 30, user_cap_bps |-> None,
            epoch_cap_fp_override |-> None, evidence_hash |-> None,
            evidence_ts_opt |-> None])
    \/ \E u \in Users : payout_user_settle(u, 1)
    \/ \E sw \in SettleSweepArgs : finalize_epoch_settle(Admin, 1, sw)
    \/ Tick

SpecSettle == InitSettle /\ [][NextSettle]_vars

\* ------------------------------------------------------- the deposit cap
\* One user's deposits of one or two tokens into either tranche and
\* withdrawals, under the initial cap of three tokens per user, with the pool
\* paused and unpaused by the administrator.
CapDepositAmounts == {1, 2}

NextCap ==
    \/ \E amt \in CapDepositAmounts, t \in Tranches :
          deposit_insurance("u1", amt, t, None, None)
    \/ \E amt \in WithdrawAmounts, t \in Tranches : withdraw("u1", amt, t)
    \/ \E b \in BOOLEAN : set_paused(Admin, b)
    \/ Tick

SpecCap == Init /\ [][NextCap]_vars

\* ================================================================= claims

\* ---- C1 -----------------------------------------------------------------
\* C1: no double claim.  For every (epoch, user) pair at most one payout_user
\* call ever succeeds; a receipt, once written, holds a non-zero claimed_fp
\* and is never changed or removed by any step; and while a receipt holds a
\* non-zero claimed_fp, payout_user for that pair fails (so it moves nothing
\* out of the vault).
C1_NoDoubleClaim ==
    /\ [](\A k \in DOMAIN claim :
             /\ claim[k].claimed_fp # 0
             /\ k \in DOMAIN payouts_ok /\ payouts_ok[k] <= 1
             /\ payout_user_res(k[2], k[1]).err # "Ok")
    /\ [][\A k \in DOMAIN claim : k \in DOMAIN claim' /\ claim'[k] = claim[k]]_vars

\* A receipt was written by a payout, its epoch is still in claims with room
\* left under the epoch's liability, and a second payout_user for the same
\* pair is refused on the receipt.
C1_Witness ==
    \E k \in DOMAIN claim :
        /\ claim[k].claimed_fp > 0
        /\ payouts_ok[k] = 1
        /\ epoch_in_claims(epoch[k[1]])
        /\ epoch[k[1]].total_payout_fp < epoch[k[1]].epoch_cap_fp
        /\ payout_user_res(k[2], k[1]).err = "NothingToPayout"

\* ---- C2 -----------------------------------------------------------------
\* C2: liability cap respected.  In every reachable state, for every triggered
\* epoch, total_payout_fp is at most min(liability capped by the policy in
\* force when the epoch was triggered, vault liquidity when it was triggered);
\* under EpochBounded the capped liability is at most the epoch's cap.
C2_LiabilityCapRespected ==
    \A e \in DOMAIN at_trigger :
        LET ep   == epoch[e]
            base == mul_div_floor_u128(ep.total_stake_snapshot_fp, ep.severity_bps, BPS_DENOM)
            cap  == IF at_trigger[e].policy = EpochBounded
                    THEN Min(base, ep.epoch_cap_fp)
                    ELSE base
        IN  ep.total_payout_fp <= Min(cap, at_trigger[e].liquidity_fp)

\* ---- C3 -----------------------------------------------------------------
\* C3: conservation.  In every reachable state total_deposited_fp equals the
\* sum over all positions of senior_deposited_fp + junior_deposited_fp.
C3_Conservation ==
    LET RECURSIVE Sum(_)
        Sum(S) == IF S = {} THEN 0
                  ELSE LET u == CHOOSE x \in S : TRUE
                       IN  position[u].senior_deposited_fp
                             + position[u].junior_deposited_fp + Sum(S \ {u})
    IN  state.total_deposited_fp = Sum(DOMAIN position)

\* ---- C4 -----------------------------------------------------------------
\* C4: lockup.  Whenever a tranche of a position holds exactly one deposit (one
\* lot, credited in full), a withdraw of any positive amount from that tranche
\* before the lot has matured fails, and a withdraw of an amount up to the
\* credited amount after it has matured succeeds if the pool is not paused.
C4_Lockup ==
    \A u \in DOMAIN position, t \in Tranches :
        LET lots == IF t = 0 THEN position[u].senior_lots ELSE position[u].junior_lots
            dep  == IF t = 0 THEN position[u].senior_deposited_fp
                    ELSE position[u].junior_deposited_fp
            lot  == lots.buf[lots.head]
        IN  (lots.len = 1 /\ dep = lot.amount_fp) =>
               \A amt \in WithdrawAmounts :
                  /\ (now - lot.ts < state.lockup_secs) =>
                         withdraw_res(u, amt, t).err # "Ok"
                  /\ (now - lot.ts >= state.lockup_secs /\ ~state.paused
                        /\ to_fp_u64(amt) <= dep) =>
                         withdraw_res(u, amt, t).err = "Ok"

\* ---- C5 -----------------------------------------------------------------
\* C5: position invariant.  In every reachable state, for every position and
\* each tranche, withdrawable_fp <= deposited_fp.
C5_WithdrawableLeDeposited ==
    \A u \in DOMAIN position :
        /\ position[u].senior_withdrawable_fp <= position[u].senior_deposited_fp
        /\ position[u].junior_withdrawable_fp <= position[u].junior_deposited_fp

\* ---- C6 -----------------------------------------------------------------
\* C6: pool freeze during claims.  In every reachable state in which some
\* epoch is triggered and not closed, the pool is paused.
C6_PausedDuringClaims ==
    (\E e \in DOMAIN epoch : epoch_in_claims(epoch[e])) => state.paused

\* ---- C7 -----------------------------------------------------------------
\* C7: fixed snapshot during claims.  While an epoch is triggered and not
\* closed, total_deposited_fp equals that epoch's total_stake_snapshot_fp (no
\* deposit or withdraw has succeeded since its trigger).
C7_FixedSnapshot ==
    \A e \in DOMAIN epoch :
        epoch_in_claims(epoch[e]) =>
            state.total_deposited_fp = epoch[e].total_stake_snapshot_fp

\* ---- C8 -----------------------------------------------------------------
\* C8: epoch lifecycle.  In every reachable state closed implies triggered, a
\* triggered epoch refuses trigger_event and a closed epoch refuses
\* finalize_epoch; in every step each epoch's (triggered, closed) pair stays
\* or moves (false,false) -> (true,false) or (true,false) -> (true,true),
\* no epoch account disappears, and a closed epoch keeps every field.
C8_EpochLifecycle ==
    /\ [](\A e \in DOMAIN epoch :
             /\ epoch[e].closed => epoch[e].triggered
             /\ epoch[e].triggered =>
                   \A s \in Signers, a \in TriggerArgs : trigger_event_res(s, e, a).err # "Ok"
             /\ epoch[e].closed =>
                   \A sw \in SweepArgs : finalize_epoch_res(Admin, e, sw).err # "Ok")
    /\ [][\A e \in DOMAIN epoch :
             /\ e \in DOMAIN epoch'
             /\ LET old == <<epoch[e].triggered, epoch[e].closed>>
                    new == <<epoch'[e].triggered, epoch'[e].closed>>
                IN  \/ new = old
                    \/ old = <<FALSE, FALSE>> /\ new = <<TRUE, FALSE>>
                    \/ old = <<TRUE, FALSE>> /\ new = <<TRUE, TRUE>>
             /\ epoch[e].closed => epoch'[e] = epoch[e]]_vars

\* An epoch went through the whole lifecycle: it is triggered and closed, after a
\* payout was made against it.
C8_Witness ==
    \E e \in DOMAIN epoch :
        /\ epoch[e].closed /\ epoch[e].triggered
        /\ epoch[e].total_payout_fp > 0

\* ---- C9 -----------------------------------------------------------------
\* C9: an epoch can be triggered.  While the oracle list is as initialize left
\* it, trigger_event signed by the administrator on an untriggered epoch, at a
\* time within the epoch's window and without stale evidence, succeeds.
C9_AdminTriggerAfterInitialize ==
    \A e \in DOMAIN epoch, a \in TriggerArgs :
        (/\ oracle_list = OracleListInit
         /\ trigger_not_yet(epoch[e])
         /\ trigger_in_window(epoch[e])
         /\ ~a.evidence_ts_opt.some)
        => trigger_event_res(Admin, e, a).err = "Ok"

\* ---- C10 ----------------------------------------------------------------
\* C10: trigger authorization.  trigger_event on an existing epoch fails with
\* Unauthorized exactly when the signer is neither the administrator nor a
\* member of an enabled oracle list.
C10_TriggerAuthorization ==
    \A s \in Signers, e \in DOMAIN epoch, a \in TriggerArgs :
        LET authorized == \/ s = state.admin
                          \/ oracle_list.enabled /\ oracle_is_allowed(oracle_list, s)
        IN  (trigger_event_res(s, e, a).err = "Unauthorized") <=> ~authorized

\* ---- C11 ----------------------------------------------------------------
\* C11: payouts happen only inside the claims window.  On an epoch that is
\* untriggered or closed every payout_user call fails, with EpochNotActive
\* whenever the caller's position account exists (without it the instruction
\* is refused before the handler runs); an untriggered epoch has
\* total_payout_fp = 0; and no step changes the total_payout_fp or any claim
\* receipt of an epoch that is untriggered or closed.
C11_PayoutOnlyInClaims ==
    /\ [](\A e \in DOMAIN epoch :
             ~(epoch[e].triggered /\ ~epoch[e].closed) =>
                 /\ \A u \in Users :
                       /\ payout_user_res(u, e).err # "Ok"
                       /\ u \in DOMAIN position => payout_user_res(u, e).err = "EpochNotActive"
                 /\ ~epoch[e].triggered => epoch[e].total_payout_fp = 0)
    /\ [][\A e \in DOMAIN epoch :
             ~(epoch[e].triggered /\ ~epoch[e].closed) =>
                 /\ epoch'[e].total_payout_fp = epoch[e].total_payout_fp
                 /\ \A u \in Users :
                       /\ (<<e, u>> \in DOMAIN claim') = (<<e, u>> \in DOMAIN claim)
                       /\ <<e, u>> \in DOMAIN claim => claim'[<<e, u>>] = claim[<<e, u>>]]_vars

\* A closed epoch with a non-zero snapshot and a staked user who never claimed
\* against it: the user's payout_user is refused with EpochNotActive.
C11_Witness ==
    \E e \in DOMAIN epoch, u \in DOMAIN position :
        /\ epoch[e].closed
        /\ epoch[e].total_stake_snapshot_fp > 0
        /\ position[u].senior_deposited_fp + position[u].junior_deposited_fp > 0
        /\ <<e, u>> \notin DOMAIN claim
        /\ payout_user_res(u, e).err = "EpochNotActive"

\* ---- C12 ----------------------------------------------------------------
\* C12: pro-rata entitlement is independent of claim order.  For an epoch
\* triggered under Proportional with vault liquidity at trigger time at least
\* the base liability, while the policy is Proportional and the pool has stayed
\* frozen since the trigger, every position with non-zero weighted stake either
\* holds a receipt of exactly floor(base * stake / snapshot) or would be paid
\* exactly that amount by payout_user now, whoever has claimed before.
C12_ProRataOrderIndependent ==
    \A e \in DOMAIN at_trigger, u \in DOMAIN position :
        LET ep   == epoch[e]
            base == mul_div_floor_u128(ep.total_stake_snapshot_fp, ep.severity_bps, BPS_DENOM)
            eff  == weighted_stake_fp(position[u].senior_deposited_fp,
                                      position[u].junior_deposited_fp,
                                      state.tranche_weight_senior_bps,
                                      state.tranche_weight_junior_bps)
            expected == mul_div_floor_u128(base, eff, ep.total_stake_snapshot_fp)
            r == payout_user_res(u, e)
        IN  (/\ epoch_in_claims(ep)
             /\ at_trigger[e].policy = Proportional /\ state.payout_policy = Proportional
             /\ at_trigger[e].liquidity_fp >= base
             /\ state.paused /\ state.total_deposited_fp = ep.total_stake_snapshot_fp
             /\ eff > 0 /\ expected > 0)
            => IF <<e, u>> \in DOMAIN claim
               THEN claim[<<e, u>>].claimed_fp = expected
               ELSE IF r.err = "Ok" THEN r.pay_fp = expected ELSE FALSE

\* ---- C13 ----------------------------------------------------------------
\* C13: the reentrancy guard is always released.  In every reachable state
\* (each is a state observed after the calls made so far have returned, a
\* failed call leaving the state it found) state.processing is false, and no
\* payout_user call by any user on any epoch fails with Busy.
C13_GuardReleased ==
    /\ state.processing = FALSE
    /\ \A u \in Users, e \in EpochIds : payout_user_res(u, e).err # "Busy"

\* A payout has succeeded, and in the state it left another payout_user call
\* fails (not with Busy) while a third is still accepted.
C13_Witness ==
    /\ \E k \in DOMAIN payouts_ok : payouts_ok[k] = 1
    /\ \E u \in Users, e \in DOMAIN epoch : payout_user_res(u, e).err = "NothingToPayout"
    /\ \E u \in Users, e \in DOMAIN epoch : payout_user_res(u, e).err = "Ok"

\* ---- C14 ----------------------------------------------------------------
\* C14: deposit fee carve-out.  For every deposit of amount A that succeeds,
\* with protocol_fee = floor(A * protocol_fee_bps / 10000) and referral_fee =
\* floor(A * referral_fee_bps / 10000) if a non-default referrer is supplied
\* and that fee is non-zero, 0 otherwise: the lot credited and the increase of
\* total_deposited_fp are A - protocol_fee - referral_fee, and the treasury
\* and the referrer are paid exactly those fees.
C14_FeeCarveOut ==
    \A u \in Users, amt \in FeeDepositAmounts, t \in Tranches, ra \in FeeReferrerArgs :
        LET r   == deposit_insurance_res(u, amt, t, ra[1], ra[2])
            A   == to_fp_u64(amt)
            pf  == MulDivQR(A, state.protocol_fee_bps, BPS_DENOM)[1]
            rf0 == MulDivQR(A, state.referral_fee_bps, BPS_DENOM)[1]
            rf  == IF ra[1].some /\ ra[1].v # DefaultKey /\ rf0 > 0 THEN rf0 ELSE 0
            lots == IF t = 0 THEN r.position.senior_lots ELSE r.position.junior_lots
        IN  r.err = "Ok" =>
              /\ lots.buf[(lots.head + lots.len - 1) % MAX_LOTS].amount_fp = A - pf - rf
              /\ r.state.total_deposited_fp = state.total_deposited_fp + (A - pf - rf)
              /\ to_fp_u64(r.treasury_paid) = pf
              /\ to_fp_u64(r.referrer_paid) = rf

\* ---- C15 ----------------------------------------------------------------
\* C15: severity range.  For every severity input, with the coefficients and
\* the floor the pool is configured with, effective_severity_bps returns v
\* with floor_bps <= v <= 10000; and the severity_bps stored in a triggered
\* epoch is at least the floor in force at its trigger and at most 10000.
C15_SeverityRange ==
    /\ \A x \in SevInputs :
          LET v == effective_severity_bps(x, state.sev_quad_a_fp, state.sev_quad_b_fp,
                                          state.sev_quad_c_fp, state.severity_floor_bps)
          IN  state.severity_floor_bps <= v /\ v <= BPS_DENOM
    /\ \A e \in DOMAIN at_trigger :
          /\ at_trigger[e].severity_floor_bps <= epoch[e].severity_bps
          /\ epoch[e].severity_bps <= BPS_DENOM

\* ---- C16 ----------------------------------------------------------------
\* C16: severity monotonicity.  With the coefficients and the floor the pool
\* is configured with, effective_severity_bps is non-decreasing in its input.
C16_SeverityMonotone ==
    \A x1 \in SevInputs, x2 \in SevInputs :
        x1 <= x2 =>
            effective_severity_bps(x1, state.sev_quad_a_fp, state.sev_quad_b_fp,
                                   state.sev_quad_c_fp, state.severity_floor_bps)
            <= effective_severity_bps(x2, state.sev_quad_a_fp, state.sev_quad_b_fp,
                                      state.sev_quad_c_fp, state.severity_floor_bps)

\* The curve is quadratic with a non-zero floor; it lies on the floor for one
\* input, strictly between floor and clamp for a larger one and on the clamp
\* for a still larger one; and an epoch was triggered at a severity strictly
\* between the floor and the clamp.
C16_Witness ==
    /\ state.sev_quad_a_fp > 0 /\ state.severity_floor_bps > 0
    /\ \E x1 \in SevInputs, x2 \in SevInputs, x3 \in SevInputs :
          LET f(x) == effective_severity_bps(x, state.sev_quad_a_fp, state.sev_quad_b_fp,
                                             state.sev_quad_c_fp, state.severity_floor_bps)
          IN  /\ x1 < x2 /\ x2 < x3
              /\ f(x1) = state.severity_floor_bps
              /\ f(x1) < f(x2) /\ f(x2) < f(x3)
              /\ f(x3) = BPS_DENOM
    /\ \E e \in DOMAIN at_trigger :
          /\ epoch[e].severity_bps > at_trigger[e].severity_floor_bps
          /\ epoch[e].severity_bps < BPS_DENOM

\* ---- C17 ----------------------------------------------------------------
\* The lots of a queue, oldest first
LotSeq(lots) == [i \in 1..lots.len |-> lots.buf[(lots.head + i - 1) % MAX_LOTS]]

\* One step of a queue: some (maybe no) lots leave from the front, each of
\* them matured, the others stay in order, and at most one lot stamped with
\* the current time joins at the back.
FifoStep(old, new) ==
    LET q  == LotSeq(old)
        q2 == LotSeq(new)
    IN  \E k \in 0..Len(q) :
          LET rest == SubSeq(q, k + 1, Len(q)) IN
          /\ \A i \in 1..k : now - q[i].ts >= state.lockup_secs
          /\ \/ q2 = rest
             \/ /\ Len(q2) = Len(rest) + 1
                /\ SubSeq(q2, 1, Len(rest)) = rest
                /\ q2[Len(q2)].ts = now

\* C17: FIFO maturity.  In every reachable state the lots of each tranche
\* queue are in deposit order (time stamps non-decreasing from the front);
\* in every step lots leave a queue only from the front, only when matured,
\* and so no later lot leaves, or has its value credited by maturation,
\* before every earlier lot has.
C17_FifoMaturity ==
    /\ [](\A u \in DOMAIN position :
             \A l \in {position[u].senior_lots, position[u].junior_lots} :
                \A i \in 1..(l.len - 1) : LotSeq(l)[i].ts <= LotSeq(l)[i + 1].ts)
    /\ [][\A u \in DOMAIN position' :
             /\ FifoStep(PositionOf(u).senior_lots, position'[u].senior_lots)
             /\ FifoStep(PositionOf(u).junior_lots, position'[u].junior_lots)]_vars

\* Two lots were deposited at different times and a withdraw has removed the
\* older one while the younger one, not yet matured, is still queued.
C17_Witness ==
    \E u \in DOMAIN position :
        LET l == position[u].senior_lots IN
        /\ l.head > 0 /\ l.len > 0
        /\ l.buf[l.head - 1].ts < l.buf[l.head].ts
        /\ now - l.buf[l.head].ts < state.lockup_secs

\* ---- C18 ----------------------------------------------------------------
\* C18: bounded lot queue.  In every reachable state each tranche queue holds
\* at most MAX_LOTS lots, and a deposit into a full queue (pool not paused) is
\* rejected with TooManyLots, which leaves position and pool totals as they
\* were.
C18_BoundedLotQueue ==
    \A u \in DOMAIN position, t \in Tranches :
        LET l == IF t = 0 THEN position[u].senior_lots ELSE position[u].junior_lots IN
        /\ l.len <= MAX_LOTS
        /\ (l.len = MAX_LOTS /\ ~state.paused) =>
              \A amt \in {1, 2} : deposit_insurance_res(u, amt, t, None, None).err = "TooManyLots"

\* A queue is full while the user is still below the deposit cap.
C18_Witness ==
    \E u \in DOMAIN position :
        /\ position[u].senior_lots.len = MAX_LOTS
        /\ position[u].senior_deposited_fp + position[u].junior_deposited_fp + 2 * SCALE
              <= state.user_deposit_cap_fp

\* ---- C19 ----------------------------------------------------------------
\* C19: repeat claim is a no-op error.  Once a payout_user has succeeded for
\* a (user, epoch) pair, a payout_user call for the same pair in any later
\* state fails with NothingToPayout (and so transfers nothing).
C19_RepeatClaimNoOp ==
    \A k \in DOMAIN payouts_ok :
        payouts_ok[k] >= 1 => payout_user_res(k[2], k[1]).err = "NothingToPayout"

\* ---- C20 ----------------------------------------------------------------
\* C20 as stated: trigger_event on an already triggered epoch fails with
\* EpochAlreadyTriggered for any signer and any arguments.
C20_TriggerSingleShot ==
    \A e \in DOMAIN epoch :
        epoch[e].triggered =>
            \A s \in Signers, a \in TriggerArgs :
                trigger_event_res(s, e, a).err = "EpochAlreadyTriggered"

\* C20 amended: trigger_event on an already triggered epoch fails for any
\* signer and any arguments, with EpochAlreadyTriggered if the signer passes
\* the authorization block and with Unauthorized if not; and in every step
\* the snapshot, severity, caps and evidence fields of a triggered epoch stay
\* as the trigger wrote them.
C20_TriggerSingleShotAuthorized ==
    /\ [](\A e \in DOMAIN epoch :
             epoch[e].triggered =>
                 \A s \in Signers, a \in TriggerArgs :
                     trigger_event_res(s, e, a).err =
                         IF trigger_authorized(s) THEN "EpochAlreadyTriggered"
                         ELSE "Unauthorized")
    /\ [][\A e \in DOMAIN epoch :
             epoch[e].triggered =>
                 /\ epoch'[e].triggered
                 /\ epoch'[e].total_stake_snapshot_fp = epoch[e].total_stake_snapshot_fp
                 /\ epoch'[e].severity_bps = epoch[e].severity_bps
                 /\ epoch'[e].user_cap_bps = epoch[e].user_cap_bps
                 /\ epoch'[e].epoch_cap_fp = epoch[e].epoch_cap_fp
                 /\ epoch'[e].evidence_hash = epoch[e].evidence_hash
                 /\ epoch'[e].evidence_ts = epoch[e].evidence_ts]_vars

\* An epoch is triggered, still inside its window, and a second attempt by
\* the administrator with arguments that would change its caps and evidence
\* is turned down by the EpochAlreadyTriggered check alone.
C20_Witness ==
    \E e \in DOMAIN epoch, a \in TriggerArgs :
        /\ epoch[e].triggered
        /\ trigger_authorized(Admin)
        /\ trigger_in_window(epoch[e])
        /\ a.user_cap_bps.some /\ a.user_cap_bps.v # epoch[e].user_cap_bps
        /\ trigger_event_res(Admin, e, a).err = "EpochAlreadyTriggered"

\* ---- C21 ----------------------------------------------------------------
\* C21: finalize is single-shot and requires a triggered epoch.  In every
\* reachable state finalize_epoch by the administrator succeeds exactly when
\* the epoch is triggered and not closed, and otherwise fails with
\* EpochNotActive; a closed epoch stays closed; and every step that changes
\* carryover_shortfall_fp or unpauses the pool is the finalization of an epoch
\* that was triggered and not closed, which adds exactly that epoch's
\* shortfall_fp, so each epoch's shortfall is carried over at most once.
C21_FinalizeSingleShot ==
    /\ [](\A e \in DOMAIN epoch, sw \in SettleSweepArgs :
             LET r == finalize_epoch_res(Admin, e, sw) IN
             /\ (r.err = "Ok") <=> (epoch[e].triggered /\ ~epoch[e].closed)
             /\ r.err # "Ok" => r.err = "EpochNotActive")
    /\ [][\A e \in DOMAIN epoch : epoch[e].closed => epoch'[e].closed]_vars
    /\ [][(state'.carryover_shortfall_fp # state.carryover_shortfall_fp
             \/ (state.paused /\ ~state'.paused)) =>
          \E e \in DOMAIN epoch :
             /\ epoch[e].triggered /\ ~epoch[e].closed /\ epoch'[e].closed
             /\ state'.carryover_shortfall_fp =
                   state.carryover_shortfall_fp + epoch[e].shortfall_fp]_vars

\* An epoch with a recorded shortfall has been finalized, the shortfall has
\* been carried over once, and a further finalize_epoch is rejected.
C21_Witness ==
    \E e \in DOMAIN epoch :
        /\ epoch[e].closed
        /\ epoch[e].shortfall_fp > 0
        /\ state.carryover_shortfall_fp = epoch[e].shortfall_fp
        /\ finalize_epoch_res(Admin, e, Some(1)).err = "EpochNotActive"

\* ---- C22 ----------------------------------------------------------------
\* Values beyond the bounds: one above the limit and the largest u16
OutOfBoundsFees == {1001, 65535}
OutOfBoundsWeights == {10001, 65535}

\* C22: parameter bounds.  In every reachable state the two fee rates are at
\* most 1000 bps and the two tranche weights at most 10000 bps; initialize
\* with a fee rate or a tranche weight beyond its bound is rejected, as is
\* set_curve_and_weights with a weight beyond its bound (ParamOutOfBounds);
\* and whatever set_policy is given, it either fails or commits a state
\* within the bounds.
C22_ParamBounds ==
    /\ state.protocol_fee_bps <= 1000
    /\ state.referral_fee_bps <= 1000
    /\ state.tranche_weight_senior_bps <= 10000
    /\ state.tranche_weight_junior_bps <= 10000
    /\ \A params \in InitParams :
          /\ \A f \in OutOfBoundsFees :
                /\ ~assert_param_bounds(initialize(Admin, [params EXCEPT !.protocol_fee_bps = f]))
                /\ ~assert_param_bounds(initialize(Admin, [params EXCEPT !.referral_fee_bps = f]))
          /\ \A w \in OutOfBoundsWeights :
                /\ ~assert_param_bounds(initialize(Admin,
                                           [params EXCEPT !.tranche_weight_senior_bps = w]))
                /\ ~assert_param_bounds(initialize(Admin,
                                           [params EXCEPT !.tranche_weight_junior_bps = w]))
    /\ \A a \in CurveArgs, w \in OutOfBoundsWeights :
          /\ set_curve_and_weights_res(Admin, [a EXCEPT !.tranche_weight_senior_bps = w]).err
                = "ParamOutOfBounds"
          /\ set_curve_and_weights_res(Admin, [a EXCEPT !.tranche_weight_junior_bps = w]).err
                = "ParamOutOfBounds"
    /\ \A pol \in {Proportional, Capped, EpochBounded, 255}, cap \in {None, Some(0), Some(SCALE)} :
          LET r == set_policy_res(Admin, pol, cap) IN
          r.err = "Ok" => assert_param_bounds(r.state)

\* set_curve_and_weights has changed the senior weight to its largest allowed
\* value and set_policy has changed the policy; a further
\* set_curve_and_weights one above the bound is rejected.
C22_Witness ==
    /\ state.tranche_weight_senior_bps = 10000
    /\ state.payout_policy = Capped
    /\ \E a \in CurveArgs :
          set_curve_and_weights_res(Admin, [a EXCEPT !.tranche_weight_senior_bps = 10001]).err
              = "ParamOutOfBounds"

\* ---- C23 ----------------------------------------------------------------
\* Deposited principal of one tranche of a position
DepositedOf(pos, tranche) ==
    IF tranche = 0 THEN pos.senior_deposited_fp ELSE pos.junior_deposited_fp

\* C23: no over-withdrawal.  In every reachable state a withdraw of more than
\* the position's deposited_fp of the tranche fails; and in every step that
\* takes tokens out of the vault for a withdrawal, the tokens taken are exactly
\* the decrease of that tranche's deposited_fp, so that what has been withdrawn
\* from a tranche never exceeds what was deposited into it.
C23_NoOverWithdrawal ==
    /\ [](\A u \in DOMAIN position, t \in Tranches, amt \in 1..4 :
             to_fp_u64(amt) > DepositedOf(position[u], t) =>
                 withdraw_res(u, amt, t).err # "Ok")
    /\ [][\A u \in DOMAIN position, t \in Tranches :
             DepositedOf(position'[u], t) < DepositedOf(position[u], t) =>
                 to_fp_u64(vault_ata - vault_ata')
                     = DepositedOf(position[u], t) - DepositedOf(position'[u], t)]_vars

\* ---- C24 ----------------------------------------------------------------
\* C24: principal is backed.  In every reachable state the vault balance,
\* scaled, is at least state.total_deposited_fp.
C24_PrincipalBacked ==
    vault_balance_fp(vault_ata) >= state.total_deposited_fp

\* ---- C25 ----------------------------------------------------------------
\* The lots and the withdrawable balance of one tranche of a position
LotsOf(pos, tranche) == IF tranche = 0 THEN pos.senior_lots ELSE pos.junior_lots
WithdrawableOf(pos, tranche) ==
    IF tranche = 0 THEN pos.senior_withdrawable_fp ELSE pos.junior_withdrawable_fp

\* The value of the lots at the front of a queue (oldest first) that have
\* matured at time t
RECURSIVE MaturedValue(_, _, _)
MaturedValue(q, lockup_secs, t) ==
    IF q = <<>> \/ t - Head(q).ts < lockup_secs THEN 0
    ELSE Head(q).amount_fp + MaturedValue(Tail(q), lockup_secs, t)

\* What a withdraw can draw on: the withdrawable balance of the tranche after
\* maturing every mature lot
Coverable(pos, tranche) ==
    WithdrawableOf(pos, tranche)
        + MaturedValue(LotSeq(LotsOf(pos, tranche)), state.lockup_secs, now)

\* C25: withdraw is all-or-nothing.  In every reachable state (pool not
\* paused) a withdraw whose amount exceeds the tranche's withdrawable balance
\* after maturing every mature lot fails with InsufficientPoolBalance, and a
\* withdraw that succeeds is covered in full and moves exactly the requested
\* amount out of the vault, the tranche's deposited total and
\* state.total_deposited_fp; nothing in between happens.
C25_WithdrawAllOrNothing ==
    \A u \in DOMAIN position, t \in Tranches, amt \in 1..4 :
        LET r == withdraw_res(u, amt, t) IN
        ~state.paused =>
          /\ to_fp_u64(amt) > Coverable(position[u], t) => r.err = "InsufficientPoolBalance"
          /\ r.err = "Ok" =>
                /\ to_fp_u64(amt) <= Coverable(position[u], t)
                /\ r.vault_ata = vault_ata - amt
                /\ DepositedOf(r.position, t)
                      = saturating_sub(DepositedOf(position[u], t), to_fp_u64(amt))
                /\ r.state.total_deposited_fp
                      = saturating_sub(state.total_deposited_fp, to_fp_u64(amt))

\* A position holds a matured lot and some withdrawable balance, and a
\* withdraw of more than the two together is rejected while a smaller one
\* would go through.
C25_Witness ==
    \E u \in DOMAIN position :
        /\ pop_matured_some(position[u].senior_lots, state.lockup_secs, now)
        /\ position[u].senior_withdrawable_fp > 0
        /\ \E amt \in 1..4 : withdraw_res(u, amt, 0).err = "InsufficientPoolBalance"
        /\ \E amt \in 1..4 : withdraw_res(u, amt, 0).err = "Ok"

\* ---- C26 ----------------------------------------------------------------
\* C26: lot maturation persists across a failed withdraw.  A withdraw that
\* fails with InsufficientPoolBalance is rolled back with the rest of its
\* instruction, so the state the next operation observes is the state the
\* call started from; the claim requires that state to show the lots that
\* were mature as popped, that is, to hold no mature lot at the front of the
\* tranche's queue.
C26_MaturationPersists ==
    \A u \in DOMAIN position, t \in Tranches, amt \in 1..4 :
        withdraw_res(u, amt, t).err = "InsufficientPoolBalance" =>
            ~pop_matured_some(LotsOf(position[u], t), state.lockup_secs, now)

\* ---- C27 ----------------------------------------------------------------
\* Base liability of a triggered epoch: snapshot x severity / 10000
BaseLiability(ep) == MulDivQR(ep.total_stake_snapshot_fp, ep.severity_bps, BPS_DENOM)[1]

\* C27: shortfall is recorded and rolled forward.  A payout_user that finds
\* nothing payable is rolled back, so the state after it is the state before
\* it; the claim requires that state to record base liability minus vault
\* liquidity as the epoch's shortfall whenever the base liability exceeds the
\* liquidity.  A payout_user that succeeds in such a state records the
\* difference, and finalize_epoch of a triggered, unclosed epoch succeeds and
\* adds exactly epoch.shortfall_fp to carryover_shortfall_fp.
C27_ShortfallRecorded ==
    /\ [](\A e \in DOMAIN epoch, u \in DOMAIN position :
             (/\ BaseLiability(epoch[e]) > vault_balance_fp(vault_ata)
              /\ payout_user_res(u, e).err = "NothingToPayout") =>
                 epoch[e].shortfall_fp = BaseLiability(epoch[e]) - vault_balance_fp(vault_ata))
    /\ [][\A e \in DOMAIN epoch :
             (/\ epoch'[e].total_payout_fp # epoch[e].total_payout_fp
              /\ BaseLiability(epoch[e]) > vault_balance_fp(vault_ata)) =>
                 epoch'[e].shortfall_fp = BaseLiability(epoch[e]) - vault_balance_fp(vault_ata)]_vars
    /\ [](\A e \in DOMAIN epoch, sw \in SettleSweepArgs :
             (epoch[e].triggered /\ ~epoch[e].closed) =>
                 LET r == finalize_epoch_res(Admin, e, sw) IN
                 /\ r.err = "Ok"
                 /\ r.state.carryover_shortfall_fp
                       = state.carryover_shortfall_fp + epoch[e].shortfall_fp)

\* ---- C28 ----------------------------------------------------------------
\* The sweep a finalize_epoch call asks for, in tokens (0 when none)
Requested(sw) == IF sw.some THEN sw.v ELSE 0

\* C28: dust sweep is bounded.  In every reachable state and for every sweep
\* argument, what a successful finalize_epoch takes out of the vault is at
\* most the requested amount and at most the excess of the vault balance over
\* state.total_deposited_fp, it is nothing when no sweep is requested or when
\* there is no excess, and it leaves a vault that covered the recorded
\* principal still covering it; and every step that closes an epoch moves
\* tokens out of the vault within the same bounds.
C28_DustSweepBounded ==
    /\ [](\A e \in DOMAIN epoch, sw \in SettleSweepArgs :
             LET r == finalize_epoch_res(Admin, e, sw)
                 excess_fp == saturating_sub(vault_balance_fp(vault_ata),
                                             state.total_deposited_fp)
             IN  r.err = "Ok" =>
                    LET moved == vault_ata - r.vault_ata IN
                    /\ 0 <= moved /\ moved <= Requested(sw)
                    /\ to_fp_u64(moved) <= excess_fp
                    /\ (excess_fp = 0 => moved = 0)
                    /\ (vault_balance_fp(vault_ata) >= state.total_deposited_fp =>
                           vault_balance_fp(r.vault_ata) >= state.total_deposited_fp))
    /\ [][\A e \in DOMAIN epoch :
             (~epoch[e].closed /\ epoch'[e].closed) =>
                 /\ 0 <= vault_ata - vault_ata'
                 /\ to_fp_u64(vault_ata - vault_ata')
                       <= saturating_sub(vault_balance_fp(vault_ata), state.total_deposited_fp)
                 /\ state'.total_deposited_fp = state.total_deposited_fp]_vars

\* An epoch without any payout has been finalized and the vault holds less
\* than the referral fees kept from the deposits (a ninth of the credited
\* principal): part of the excess has been swept, and the principal is still
\* covered.
C28_Witness ==
    /\ \E e \in DOMAIN epoch : epoch[e].closed
    /\ claim = <<>>
    /\ state.total_deposited_fp > 0
    /\ vault_balance_fp(vault_ata) >= state.total_deposited_fp
    /\ (vault_balance_fp(vault_ata) - state.total_deposited_fp) * 9 < state.total_deposited_fp

\* ---- C29 ----------------------------------------------------------------
\* Sum of claimed_fp over the claim receipts of one epoch
RECURSIVE SumClaimed(_, _)
SumClaimed(c, keys) ==
    IF keys = {} THEN 0
    ELSE LET k == CHOOSE x \in keys : TRUE
         IN  c[k].claimed_fp + SumClaimed(c, keys \ {k})
ClaimedInEpoch(c, e) == SumClaimed(c, {k \in DOMAIN c : k[1] = e})

\* C29: payout accounting is consistent.  In every reachable state, for every
\* epoch, total_payout_fp equals the sum of claimed_fp over the epoch's claim
\* receipts; and in every step total_payout_fp of an epoch and the sum of its
\* receipts change by the same amount, a receipt changing only together with
\* the total.
C29_PayoutAccounting ==
    /\ [](\A e \in DOMAIN epoch : epoch[e].total_payout_fp = ClaimedInEpoch(claim, e))
    /\ [][\A e \in DOMAIN epoch :
             /\ epoch'[e].total_payout_fp - epoch[e].total_payout_fp
                   = ClaimedInEpoch(claim', e) - ClaimedInEpoch(claim, e)
             /\ epoch'[e].total_payout_fp = epoch[e].total_payout_fp =>
                   \A u \in Users : ClaimOf(e, u)' = ClaimOf(e, u)]_vars

\* Two users have each been paid in the same epoch.
C29_Witness ==
    \E e \in DOMAIN epoch :
        /\ \A u \in Users : <<e, u>> \in DOMAIN claim /\ claim[<<e, u>>].claimed_fp > 0
        /\ epoch[e].total_payout_fp = claim[<<e, "u1">>].claimed_fp + claim[<<e, "u2">>].claimed_fp

\* ---- C30 ----------------------------------------------------------------
\* C30: paid equals recorded.  In every step that writes a claim receipt, the
\* tokens that leave the vault, scaled, equal the claimed_fp written to the
\* receipt and the increase of the epoch's total_payout_fp.
C30_PaidEqualsRecorded ==
    [][\A k \in DOMAIN claim' :
          claim'[k].claimed_fp # ClaimOf(k[1], k[2]).claimed_fp =>
              /\ to_fp_u64(vault_ata - vault_ata') = claim'[k].claimed_fp
              /\ epoch'[k[1]].total_payout_fp - epoch[k[1]].total_payout_fp
                    = claim'[k].claimed_fp]_vars

\* ---- C31 ----------------------------------------------------------------
\* The severity the curve gives for input x with the pool's coefficients and
\* floor: floor((a*x^2 + b*x + c) / SCALE), at least the floor, at most 10000
CurveSeverity(x) ==
    Min(Max((state.sev_quad_a_fp * x * x + state.sev_quad_b_fp * x + state.sev_quad_c_fp)
                \div SCALE,
            state.severity_floor_bps),
        BPS_DENOM)

\* The liability cap a trigger resolves for the active policy
ResolvedCap(override) ==
    IF state.payout_policy = EpochBounded
    THEN (IF override.some THEN override.v ELSE state.epoch_cap_fp)
    ELSE 0

\* C31: trigger effects.  Every step that triggers an epoch sets its snapshot
\* to state.total_deposited_fp of that moment, its severity to the curve's
\* value for the input with the pool's coefficients and floor of that moment,
\* its cap to the override or else the pool's epoch_cap_fp under EpochBounded
\* and to 0 under the other policies, and pauses the pool; and once an epoch
\* is triggered its snapshot, severity and cap never change.
C31_TriggerEffects ==
    /\ [][\A e \in DOMAIN epoch :
             (~epoch[e].triggered /\ epoch'[e].triggered) =>
                 /\ epoch'[e].total_stake_snapshot_fp = state.total_deposited_fp
                 /\ \E a \in TriggerArgs :
                       /\ epoch'[e].severity_bps = CurveSeverity(a.severity_input_bps)
                       /\ epoch'[e].epoch_cap_fp = ResolvedCap(a.epoch_cap_fp_override)
                 /\ state'.paused]_vars
    /\ [][\A e \in DOMAIN epoch :
             epoch[e].triggered =>
                 /\ epoch'[e].total_stake_snapshot_fp = epoch[e].total_stake_snapshot_fp
                 /\ epoch'[e].severity_bps = epoch[e].severity_bps
                 /\ epoch'[e].epoch_cap_fp = epoch[e].epoch_cap_fp]_vars

\* An epoch was triggered under EpochBounded with a cap override over a pool
\* holding deposits, and has since been paid from and finalized with its
\* snapshot, severity and cap as the trigger set them.
C31_Witness ==
    \E e \in DOMAIN epoch :
        /\ epoch[e].closed
        /\ epoch[e].total_payout_fp > 0
        /\ e \in DOMAIN at_trigger /\ at_trigger[e].policy = EpochBounded
        /\ epoch[e].total_stake_snapshot_fp > 0
        /\ epoch[e].epoch_cap_fp = SCALE \div 2
        /\ epoch[e].severity_bps = at_trigger[e].severity_floor_bps

\* ---- C32 ----------------------------------------------------------------
\* An epoch with the two fields payout_user may write blanked out
EpochFrame(ep) == [ep EXCEPT !.total_payout_fp = 0, !.shortfall_fp = 0]

\* C32: payout_user frame.  In every reachable state a payout_user that would
\* succeed returns the State account as it found it and an epoch that differs
\* at most in total_payout_fp and shortfall_fp; and every step that writes a
\* claim receipt leaves every position (deposited and withdrawable totals, lot
\* queues), the State account (total_deposited_fp, paused, payout_policy,
\* carryover_shortfall_fp among its fields) and the oracle list unchanged,
\* writes one receipt only, changes one epoch only and of it only
\* total_payout_fp and shortfall_fp, and takes tokens out of the vault, never
\* in.  (A payout_user that fails is rolled back and changes nothing.)
C32_PayoutFrame ==
    /\ [](\A e \in DOMAIN epoch, u \in DOMAIN position :
             LET r == payout_user_res(u, e) IN
             r.err = "Ok" =>
                 /\ r.state = state
                 /\ EpochFrame(r.epoch) = EpochFrame(epoch[e])
                 /\ r.vault_ata <= vault_ata)
    /\ [][claim' # claim =>
             /\ position' = position
             /\ state' = state
             /\ oracle_list' = oracle_list
             /\ now' = now
             /\ vault_ata' <= vault_ata
             /\ \E k \in DOMAIN claim' :
                   /\ \A x \in DOMAIN claim' \ {k} : x \in DOMAIN claim /\ claim'[x] = claim[x]
                   /\ DOMAIN claim \subseteq DOMAIN claim'
                   /\ DOMAIN epoch' = DOMAIN epoch
                   /\ \A e \in DOMAIN epoch :
                         IF e = k[1] THEN EpochFrame(epoch'[e]) = EpochFrame(epoch[e])
                         ELSE epoch'[e] = epoch[e]]_vars

\* A user with deposits has been paid out of a vault that could not cover the
\* epoch's base liability: the payout moved the epoch's total and shortfall
\* and wrote the receipt, and the position and the pool's principal stand as
\* they were (the principal still equals the epoch's snapshot).
C32_Witness ==
    \E e \in DOMAIN epoch, u \in DOMAIN position :
        /\ <<e, u>> \in DOMAIN claim /\ claim[<<e, u>>].claimed_fp > 0
        /\ epoch[e].shortfall_fp > 0
        /\ epoch[e].total_payout_fp > 0
        /\ position[u].senior_deposited_fp > 0
        /\ position[u].senior_lots.len > 0
        /\ state.total_deposited_fp = epoch[e].total_stake_snapshot_fp
        /\ state.paused

\* ---- C33 ----------------------------------------------------------------
\* What a deposit of amount_usdc tokens credits: the amount less both fees
NetCredit(amount_usdc) ==
    to_fp_u64(amount_usdc)
        - MulDivQR(to_fp_u64(amount_usdc), state.protocol_fee_bps, BPS_DENOM)[1]
        - MulDivQR(to_fp_u64(amount_usdc), state.referral_fee_bps, BPS_DENOM)[1]

\* C33: per-user deposit cap.  In every reachable state, for every position,
\* senior_deposited_fp + junior_deposited_fp <= state.user_deposit_cap_fp; a
\* deposit that passes the checks made before the cap (pool not paused,
\* amount at least the minimum, cooldown over, room in the lot queue) and
\* would take the sum above the cap fails with UserCapExceeded; and a deposit
\* that succeeds leaves the sum within the cap.
C33_UserDepositCap ==
    /\ \A u \in DOMAIN position :
          position[u].senior_deposited_fp + position[u].junior_deposited_fp
              <= state.user_deposit_cap_fp
    /\ \A u \in Users, t \in Tranches, amt \in 1..4 :
          LET pos == PositionOf(u)
              r == deposit_insurance_res(u, amt, t, None, None)
              sum_after == pos.senior_deposited_fp + pos.junior_deposited_fp + NetCredit(amt)
          IN  /\ (/\ ~state.paused
                  /\ to_fp_u64(amt) >= state.min_deposit_fp
                  /\ (pos.last_deposit_ts = 0 \/ state.min_seconds_between_deposits = 0)
                  /\ LotsOf(pos, t).len < MAX_LOTS
                  /\ sum_after > state.user_deposit_cap_fp) => r.err = "UserCapExceeded"
              /\ r.err = "Ok" =>
                    /\ sum_after <= state.user_deposit_cap_fp
                    /\ r.position.senior_deposited_fp + r.position.junior_deposited_fp = sum_after

\* A position holds deposits in both tranches that add up to the cap less one
\* token, and a deposit of two tokens is refused with UserCapExceeded.
C33_Witness ==
    \E u \in DOMAIN position :
        /\ position[u].senior_deposited_fp > 0
        /\ position[u].junior_deposited_fp > 0
        /\ position[u].senior_deposited_fp + position[u].junior_deposited_fp + SCALE
              = state.user_deposit_cap_fp
        /\ ~state.paused
        /\ deposit_insurance_res(u, 2, 0, None, None).err = "UserCapExceeded"

====
